---- MODULE Spec2Model ----
(***************************************************************************)
(* Model of test-cache-locally.py: the LocalCacheTester orchestrator, its  *)
(* eight probes, the two utilities they share (run_command, get_dir_size), *)
(* the report builder (generate_cache_report) and the entry point main.    *)
(*                                                                         *)
(* Text is kept as TLA+ strings.  The stdout of a child is kept as the     *)
(* sequence of its whitespace-separated tokens (what str.split() yields),  *)
(* so the empty stdout "" is the empty sequence.  Probe messages keep the  *)
(* literal prefix of the f-string and the stderr text appended to it;      *)
(* durations and timestamps are not modelled.                              *)
(***************************************************************************)
EXTENDS Integers, Sequences, FiniteSets, TLC

VARIABLES
    pc,          \* position of main: "idle", "running", "reported", "exited"
    i,           \* index (1-based) of the next entry of tests to run
    tests,       \* the declared test sequence of run_all_tests (indexes into Declared)
    results,     \* self.results
    origin,      \* history: for each entry of results, who produced it
    verdict,     \* the summary line chosen at the end of run_all_tests
    report,      \* main's report, the dict run_all_tests returned (Null outside its scope)
    exitCode,    \* the value main returned, as a set: {} before it returns
    signal,      \* where a KeyboardInterrupt reached main ("none" if it did not)
    flushed,     \* "no", "attempted" (open/json.dump raised), "written"
    pipCache,    \* filesystem: does ~/.cache/pip exist
    world,       \* the environment the invocation runs in (see Worlds)
    clock,       \* wall clock, in whole seconds: int(time.time())
    run,         \* number of the current invocation of main
    files,       \* filesystem: report files of the project root, suffix -> run that wrote it
    written,     \* history: for each run that saved its report, the suffix it used
    launched,    \* number of external commands the last probe launched
    call         \* the last direct call of a utility and what it returned

vars == <<pc, i, tests, results, origin, verdict, report, exitCode, signal,
          flushed, pipCache, world, clock, run, files, written, launched, call>>

-----------------------------------------------------------------------------
(* Bounds of the model *)

\* largest directory content, in bytes, the fallback walk sums up
MaxBytes == 1536
\* last second of the wall clock
MaxClock == 2
\* number of invocations of main in the same project root
MaxRuns == 2

Null == [none |-> TRUE]

-----------------------------------------------------------------------------
(* run_command *)

\* What subprocess.run can do with the child: it completes ("exit"), the wait
\* expires ("timeout"), the launch fails with an OSError ("launch"), the captured
\* output cannot be decoded as text ("decode"), or a KeyboardInterrupt is
\* delivered while it waits ("sigint").
ChildExit(rc, out, err) == [kind |-> "exit", rc |-> rc, out |-> out, err |-> err]
ChildTimeout == [kind |-> "timeout", rc |-> 0, out |-> <<>>, err |-> ""]
ChildLaunch(text) == [kind |-> "launch", rc |-> 0, out |-> <<>>, err |-> text]
ChildDecode(rc, text) == [kind |-> "decode", rc |-> rc, out |-> <<>>, err |-> text]
ChildSigint == [kind |-> "sigint", rc |-> 0, out |-> <<>>, err |-> ""]

OsErrors == {"[Errno 2] No such file or directory", "[Errno 13] Permission denied"}
DecodeError == "'utf-8' codec can't decode byte"

\* the timeouts the callers pass (default 60)
Timeouts == {10, 30, 60, 120, 180, 300}

Children(outs, errs) ==
    {ChildExit(rc, out, err) : rc \in {0, 1}, out \in outs, err \in errs}
      \cup {ChildTimeout, ChildSigint}
      \cup {ChildLaunch(t) : t \in OsErrors}
      \cup {ChildDecode(rc, DecodeError) : rc \in {0, 1}}

Returned(rc, out, err, spawned) ==
    [raised |-> "none", rc |-> rc, out |-> out, err |-> err, spawned |-> spawned]

\* a mutant: the call is repeated once after a timeout
run_command_retry(timeout, child) ==
    CASE child.kind = "exit" -> Returned(child.rc, child.out, child.err, 1)
      [] child.kind = "timeout" ->
            Returned(-1, <<>>, "Command timed out after " \o ToString(timeout) \o "s", 2)
      [] child.kind \in {"launch", "decode"} -> Returned(-1, <<>>, child.err, 1)
      [] OTHER -> [raised |-> "KeyboardInterrupt", rc |-> 0, out |-> <<>>,
                   err |-> "", spawned |-> 1]

run_command(timeout, child) ==
    CASE child.kind = "exit" -> Returned(child.rc, child.out, child.err, 1)
      [] child.kind = "timeout" ->
            Returned(-1, <<>>, "Command timed out after " \o ToString(timeout) \o "s", 1)
      \* except Exception: every other exception of subprocess.run
      [] child.kind \in {"launch", "decode"} -> Returned(-1, <<>>, child.err, 1)
      \* KeyboardInterrupt is no Exception: it leaves run_command
      [] OTHER -> [raised |-> "KeyboardInterrupt", rc |-> 0, out |-> <<>>,
                   err |-> "", spawned |-> 1]

-----------------------------------------------------------------------------
(* get_dir_size *)

\* f"{x:.1f}" of x = num / den: one decimal, ties to even
Fmt1(num, den) ==
    LET t == (num * 10) \div den
        r == (num * 10) % den
        up == (2 * r > den) \/ (2 * r = den /\ t % 2 = 1)
        q == IF up THEN t + 1 ELSE t
    IN  ToString(q \div 10) \o "." \o ToString(q % 10)

Units == <<"B", "KB", "MB", "GB">>

RECURSIVE Pow1024(_)
Pow1024(k) == IF k = 0 THEN 1 ELSE 1024 * Pow1024(k - 1)

\* the loop over the units: total_size is divided by 1024.0 at every round
RECURSIVE HumanReadable(_, _)
HumanReadable(total, k) ==
    IF k > Len(Units) THEN Fmt1(total, Pow1024(k - 1)) \o " TB"
    ELSE IF total < 1024 * Pow1024(k - 1)
         THEN Fmt1(total, Pow1024(k - 1)) \o " " \o Units[k]
         ELSE HumanReadable(total, k + 1)

\* the outcome of the os.walk loop: the bytes it summed, or an exception that
\* left it ("error"), or a KeyboardInterrupt delivered during it ("sigint")
WalkOk(total) == [kind |-> "ok", total |-> total]
WalkError == [kind |-> "error", total |-> 0]
WalkSigint == [kind |-> "sigint", total |-> 0]
Walks == {WalkOk(0), WalkOk(MaxBytes), WalkError, WalkSigint}

\* what du -sh prints first on success
DuSizes == {"4.0K"}
DuChildren == {ChildExit(0, <<s, "path">>, "") : s \in DuSizes}
                \cup {ChildExit(0, <<>>, ""), ChildExit(1, <<>>, "du: cannot read")}
                \cup {ChildTimeout, ChildSigint}
                \cup {ChildLaunch(t) : t \in OsErrors}
                \cup {ChildDecode(0, DecodeError)}

Sized(size, commands, walked, caught) ==
    [raised |-> "none", size |-> size, commands |-> commands, walked |-> walked,
     caught |-> caught]
Unsized(error) ==
    [raised |-> error, size |-> "", commands |-> 0, walked |-> FALSE, caught |-> 0]

Fallback(walk, commands, caught) ==
    IF walk.kind = "ok"
    THEN Sized(HumanReadable(walk.total, 1), commands, TRUE, caught)
    \* bare except: also a KeyboardInterrupt ends here
    ELSE Sized("unknown", commands, TRUE, caught + (IF walk.kind = "sigint" THEN 1 ELSE 0))

\* what path.exists() can do: False ("absent"), True ("present"), or raise the
\* OSError of a stat that is refused, as on a parent that cannot be searched
\* ("denied": pathlib only turns ENOENT, ENOTDIR, EBADF and ELOOP into False)
Stats == {"absent", "present", "denied"}

\* a mutant: the existence test is dropped
get_dir_size_no_exists(exists, du, walk) ==
    LET r == run_command(60, du)
    IN  IF r.raised = "none" /\ r.rc = 0 /\ Len(r.out) > 0
        THEN Sized(r.out[1], 1, FALSE, 0)
        ELSE Fallback(walk, 1, IF r.raised = "none" THEN 0 ELSE 1)

\* exists: what path.exists() does; du: what the du child does; walk: what the
\* walk does.  commands counts the external commands attempted, walked says
\* whether the walk ran, caught counts the KeyboardInterrupts the bare excepts
\* caught, raised names the exception that left get_dir_size.
get_dir_size(exists, du, walk) ==
    IF exists = "denied" THEN Unsized("PermissionError")
    ELSE IF exists = "absent" THEN Sized("0 B", 0, FALSE, 0)
    ELSE LET r == run_command(60, du)
         IN  \* stdout.split()[0] raises IndexError on an empty stdout; the bare
             \* except catches it, and whatever run_command let through
             IF r.raised = "none" /\ r.rc = 0 /\ Len(r.out) > 0
             THEN Sized(r.out[1], 1, FALSE, 0)
             ELSE Fallback(walk, 1, IF r.raised = "none" THEN 0 ELSE 1)

-----------------------------------------------------------------------------
(* The environment of an invocation *)

\* An environment says what the children of the probes may do ("ok": exit 0,
\* "fail": exit 1 with an error text), whether the files and modules the probes
\* look for may be present, what du and the walk may do, and which defects may
\* strike inside a probe: an exception raised in a probe's try block ("caught")
\* or one that leaves the probe ("escapes": raised outside every try block or
\* inside an except block).
Worlds ==
    [any   |-> [exits |-> {"ok", "fail"}, present |-> BOOLEAN,
                faults |-> {"escapes"}, du |-> DuChildren, walks |-> Walks],
     calm  |-> [exits |-> {"ok"}, present |-> {TRUE},
                faults |-> {}, du |-> {ChildExit(0, <<"4.0K", "path">>, "")},
                walks |-> {WalkOk(MaxBytes)}],
     harsh |-> [exits |-> {"fail"}, present |-> {FALSE},
                faults |-> {"caught"}, du |-> {ChildTimeout, ChildSigint},
                walks |-> {WalkOk(0), WalkSigint}],
     broken |-> [exits |-> {"fail"}, present |-> {TRUE},
                 faults |-> {}, du |-> {ChildTimeout},
                 walks |-> {WalkOk(0)}]]

StderrText == "E"
DefectText == "defect"

\* the children of a command whose stdout, on success, is out
Cmd(w, out) ==
    {ChildExit(0, out, "") : x \in w.exits \cap {"ok"}} \cup
    {ChildExit(1, <<>>, StderrText) : x \in w.exits \cap {"fail"}}

\* str.strip() of a stdout: its tokens, one space between them
RECURSIVE Strip(_)
Strip(out) ==
    IF out = <<>> THEN ""
    ELSE IF Len(out) = 1 THEN out[1] ELSE out[1] \o " " \o Strip(Tail(out))

\* s[:n]: every text of the model is shorter than the lengths the probes cut
\* at (200 and 500 characters)
Cut(s, n) == s

-----------------------------------------------------------------------------
(* CacheTestResult and what a call of a probe can end in *)

CacheTestResult(test_name, status, message) ==
    [test_name |-> test_name, status |-> status, message |-> message]

\* the probe returns res; pip: ~/.cache/pip exists afterwards; commands: external
\* commands launched
Ret(res, pip, commands) ==
    [kind |-> "return", res |-> res, text |-> "", pip |-> pip, commands |-> commands]
\* an Exception leaves the probe
Raise(text, pip) ==
    [kind |-> "raise", res |-> Null, text |-> text, pip |-> pip, commands |-> 0]
\* a KeyboardInterrupt leaves the probe
Sigint(pip) ==
    [kind |-> "sigint", res |-> Null, text |-> "", pip |-> pip, commands |-> 0]

\* try: body; except Exception as e: return CacheTestResult(name, "failed", .., str(e))
Guarded(name, body, w, pip) ==
    body
      \cup {Ret(CacheTestResult(name, "failed", DefectText), pip, 0) :
                x \in w.faults \cap {"caught"}}
      \cup {Raise(DefectText, pip) : x \in w.faults \cap {"escapes"}}
      \cup {Sigint(pip)}

\* a body with no try block around it: every defect leaves the probe
Unguarded(body, w, pip) ==
    body \cup {Raise(DefectText, pip) : x \in w.faults} \cup {Sigint(pip)}

-----------------------------------------------------------------------------
(* The eight probes.  Each is the set of ways a call can end, given the      *)
(* environment w and whether ~/.cache/pip exists.  Sizes and counters that   *)
(* a message interpolates are elided from it.                                *)

\* the whole-run specifications draw a directory as present or absent
DirSizes(w, exists) ==
    {get_dir_size(IF exists THEN "present" ELSE "absent", du, walk) :
        du \in w.du, walk \in w.walks}

\* a mutant: the cache directory is not created
test_python_environment_no_mkdir(w, pip) ==
    Guarded("python_environment",
        UNION {LET r1 == run_command(60, c1)
               IN  IF r1.rc # 0
                   THEN {Ret(CacheTestResult("python_environment", "failed",
                                 "Python not working: " \o r1.err), pip, 1)}
                   ELSE UNION {LET r2 == run_command(60, c2)
                               IN  IF r2.rc # 0
                                   THEN {Ret(CacheTestResult("python_environment", "failed",
                                                 "Pip not working: " \o r2.err), pip, 2)}
                                   ELSE {Ret(CacheTestResult("python_environment", "passed",
                                                 "Python " \o Strip(r1.out) \o " ready"),
                                             pip, 2)}
                               : c2 \in Cmd(w, <<"pip", "23.0">>)}
               : c1 \in Cmd(w, <<"Python", "3.11">>)},
        w, pip)

test_python_environment(w, pip) ==
    Guarded("python_environment",
        UNION {LET r1 == run_command(60, c1)
               IN  IF r1.rc # 0
                   THEN {Ret(CacheTestResult("python_environment", "failed",
                                 "Python not working: " \o r1.err), pip, 1)}
                   ELSE UNION {LET r2 == run_command(60, c2)
                               IN  IF r2.rc # 0
                                   THEN {Ret(CacheTestResult("python_environment", "failed",
                                                 "Pip not working: " \o r2.err), pip, 2)}
                                   \* pip_cache.mkdir(parents=True, exist_ok=True)
                                   ELSE {Ret(CacheTestResult("python_environment", "passed",
                                                 "Python " \o Strip(r1.out) \o " ready"),
                                             TRUE, 2)}
                               : c2 \in Cmd(w, <<"pip", "23.0">>)}
               : c1 \in Cmd(w, <<"Python", "3.11">>)},
        w, pip)

\* pip install may itself create the cache directory it is pointed at
test_pip_cache_behavior(w, pip) ==
    Guarded("pip_cache",
        UNION {UNION {LET r == run_command(120, c)
                      IN  IF r.rc # 0
                          THEN {Ret(CacheTestResult("pip_cache", "failed",
                                        "Package install failed: " \o r.err),
                                    pip, s0.commands + 1)}
                          ELSE UNION {{Ret(CacheTestResult("pip_cache", "passed",
                                               "Cache used, Size"),
                                           p2, s0.commands + 1 + s1.commands)
                                       : s1 \in DirSizes(w, p2)}
                                      : p2 \in {pip, TRUE}}
                      : c \in Cmd(w, <<"Requirement", "already", "satisfied">>)}
               : s0 \in DirSizes(w, pip)},
        w, pip)

\* a mutant: the install is attempted without looking for the files
test_requirements_installation_eager(w, pip) ==
    Guarded("requirements_install",
        UNION {LET r == run_command(300, c)
               IN  IF r.rc # 0
                   THEN {Ret(CacheTestResult("requirements_install", "failed",
                                 "Requirements install failed: " \o Cut(r.err, 500)),
                             pip, 1)}
                   ELSE {Ret(CacheTestResult("requirements_install", "passed",
                                 "Cache hits, Already satisfied"), pip, 1)}
               : c \in Cmd(w, <<"Using", "cached">>)},
        w, pip)

test_requirements_installation(w, pip) ==
    Guarded("requirements_install",
        UNION {IF ~req /\ ~minimal
               THEN {Ret(CacheTestResult("requirements_install", "skipped",
                             "No requirements.txt found"), pip, 0)}
               ELSE UNION {LET r1 == run_command(300, c1)
                               retry == r1.rc # 0 /\ minimal /\ req
                               r == IF retry THEN run_command(180, c2) ELSE r1
                               n == IF retry THEN 2 ELSE 1
                           IN  IF r.rc # 0
                               THEN {Ret(CacheTestResult("requirements_install", "failed",
                                             "Requirements install failed: " \o Cut(r.err, 500)),
                                         pip, n)}
                               ELSE {Ret(CacheTestResult("requirements_install", "passed",
                                             "Cache hits, Already satisfied"), pip, n)}
                           : c1 \in Cmd(w, <<"Using", "cached">>),
                             c2 \in Cmd(w, <<"Using", "cached">>)}
               : req \in w.present, minimal \in w.present},
        w, pip)

\* critical: all six critical modules import; project: agentic_iac imports
test_python_imports(w, pip) ==
    Unguarded(
        {Ret(CacheTestResult("python_imports",
                 IF critical /\ project THEN "passed"
                 ELSE IF critical THEN "warning" ELSE "failed",
                 IF critical /\ project THEN "All critical imports OK"
                 ELSE IF critical THEN "Critical imports OK but project modules have issues"
                 ELSE "Missing critical imports"),
             pip, 0)
         : critical \in w.present, project \in w.present},
        w, pip)

test_demo_applications(w, pip) ==
    Guarded("demo_applications",
        UNION {IF ~runner
               THEN {Ret(CacheTestResult("demo_applications", "skipped",
                             "demo-runner not found"), pip, 0)}
               ELSE UNION {LET r1 == run_command(30, c1)
                               r2 == run_command(120, c2)
                           IN  IF r1.rc # 0
                               THEN {Ret(CacheTestResult("demo_applications", "failed",
                                             "Demo list failed: " \o r1.err), pip, 1)}
                               ELSE IF r2.rc = 0 /\ made
                               THEN {Ret(CacheTestResult("demo_applications", "passed",
                                             "Demo setup successful, directory created"),
                                         pip, 2 + s.commands)
                                     : s \in DirSizes(w, TRUE)}
                               ELSE {Ret(CacheTestResult("demo_applications", "warning",
                                             "Demo setup issues but may work in CI: "
                                                 \o Cut(r2.err, 200)), pip, 2)}
                           : c1 \in Cmd(w, <<"demos">>), c2 \in Cmd(w, <<"done">>),
                             made \in w.present}
               : runner \in w.present},
        w, pip)

test_cli_commands(w, pip) ==
    Guarded("cli_commands",
        UNION {IF ~cli
               THEN {Ret(CacheTestResult("cli_commands", "warning",
                             "agentic-iac CLI not found, may use python -m"), pip, 0)}
               ELSE UNION {LET h1 == run_command(30, c1)
                               h == IF h1.rc # 0 THEN run_command(30, c2) ELSE h1
                               nh == IF h1.rc # 0 THEN 2 ELSE 1
                               s1 == run_command(30, c3)
                               s == IF s1.rc # 0 THEN run_command(30, c4) ELSE s1
                               ns == IF s1.rc # 0 THEN 2 ELSE 1
                           IN  IF h.rc # 0
                               THEN {Ret(CacheTestResult("cli_commands", "failed",
                                             "CLI help failed: " \o h.err), pip, nh)}
                               ELSE {Ret(CacheTestResult("cli_commands",
                                             IF s.rc = 0 THEN "passed" ELSE "warning",
                                             IF s.rc = 0 THEN "CLI commands working"
                                             ELSE "CLI has issues but may work in CI"),
                                         pip, nh + ns)}
                           : c1 \in Cmd(w, <<"usage">>), c2 \in Cmd(w, <<"usage">>),
                             c3 \in Cmd(w, <<"status">>), c4 \in Cmd(w, <<"status">>)}
               : cli \in w.present},
        w, pip)

\* detected: one of package.json, yarn.lock, pnpm-lock.yaml exists
test_node_js_detection(w, pip) ==
    Guarded("nodejs_detection",
        UNION {IF ~detected
               THEN {Ret(CacheTestResult("nodejs_detection", "passed",
                             "No Node.js detected (Python-only project)"), pip, 0)}
               ELSE UNION {LET r == run_command(10, c)
                           IN  IF r.rc = 0
                               THEN {Ret(CacheTestResult("nodejs_detection", "passed",
                                             "Node.js " \o Strip(r.out) \o " available, npm cache"),
                                         pip, 1 + s.commands)
                                     : s \in UNION {DirSizes(w, npm) : npm \in w.present}}
                               ELSE {Ret(CacheTestResult("nodejs_detection", "warning",
                                             "Node.js files detected but Node.js not installed"),
                                         pip, 1)}
                           : c \in Cmd(w, <<"v20">>)}
               : detected \in w.present},
        w, pip)

test_github_actions_simulation(w, pip) ==
    Guarded("github_actions_simulation",
        {LET r == run_command(30, c)
         IN  CASE r.rc = 0 ->
                    Ret(CacheTestResult("github_actions_simulation", "passed",
                            "GitHub Actions environment simulation successful"), pip, 1)
               [] OTHER ->
                    Ret(CacheTestResult("github_actions_simulation", "warning",
                            "Simulation issues: " \o Cut(r.err, 200)), pip, 1)
         : c \in Cmd(w, <<"GitHub", "Actions", "simulation", "successful">>)},
        w, pip)

-----------------------------------------------------------------------------
(* run_all_tests: the declared test sequence *)

\* the display names of the tests list, as sequences of characters
Declared == <<
    <<"P", "y", "t", "h", "o", "n", " ", "E", "n", "v", "i", "r", "o", "n", "m", "e", "n", "t">>,
    <<"P", "i", "p", " ", "C", "a", "c", "h", "e", " ", "B", "e", "h", "a", "v", "i", "o", "r">>,
    <<"R", "e", "q", "u", "i", "r", "e", "m", "e", "n", "t", "s", " ", "I", "n", "s", "t", "a", "l", "l", "a", "t", "i", "o", "n">>,
    <<"P", "y", "t", "h", "o", "n", " ", "I", "m", "p", "o", "r", "t", "s">>,
    <<"D", "e", "m", "o", " ", "A", "p", "p", "l", "i", "c", "a", "t", "i", "o", "n", "s">>,
    <<"C", "L", "I", " ", "C", "o", "m", "m", "a", "n", "d", "s">>,
    <<"N", "o", "d", "e", ".", "j", "s", " ", "D", "e", "t", "e", "c", "t", "i", "o", "n">>,
    <<"G", "i", "t", "H", "u", "b", " ", "A", "c", "t", "i", "o", "n", "s", " ", "S", "i", "m", "u", "l", "a", "t", "i", "o", "n">> >>

\* the name each test function gives the results it returns
Reported == <<
    "python_environment",
    "pip_cache",
    "requirements_install",
    "python_imports",
    "demo_applications",
    "cli_commands",
    "nodejs_detection",
    "github_actions_simulation" >>

Probe(k, w, pip) ==
    CASE k = 1 -> test_python_environment(w, pip)
      [] k = 2 -> test_pip_cache_behavior(w, pip)
      [] k = 3 -> test_requirements_installation(w, pip)
      [] k = 4 -> test_python_imports(w, pip)
      [] k = 5 -> test_demo_applications(w, pip)
      [] k = 6 -> test_cli_commands(w, pip)
      [] k = 7 -> test_node_js_detection(w, pip)
      [] OTHER -> test_github_actions_simulation(w, pip)

Upper == <<"A", "B", "C", "D", "E", "F", "G", "H", "I", "J", "K", "L", "M",
           "N", "O", "P", "Q", "R", "S", "T", "U", "V", "W", "X", "Y", "Z">>
Lowercase == <<"a", "b", "c", "d", "e", "f", "g", "h", "i", "j", "k", "l", "m",
               "n", "o", "p", "q", "r", "s", "t", "u", "v", "w", "x", "y", "z">>

\* str.lower(), character by character
Lower(text) ==
    [n \in 1..Len(text) |->
        IF \E u \in 1..Len(Upper) : Upper[u] = text[n]
        THEN Lowercase[CHOOSE u \in 1..Len(Upper) : Upper[u] = text[n]]
        ELSE text[n]]

\* str.replace(old, new) for a one-character old
Replace(text, old, new) ==
    [n \in 1..Len(text) |-> IF text[n] = old THEN new ELSE text[n]]

RECURSIVE Str(_)
Str(text) == IF text = <<>> THEN "" ELSE text[1] \o Str(Tail(text))

\* a mutant: every synthetic result bears the same name
error_result_unnamed(test_name, text) ==
    CacheTestResult("error", "failed", text)

\* CacheTestResult(test_name.lower().replace(" ", "_"), "failed", 0, str(e))
error_result(test_name, text) ==
    CacheTestResult(Str(Replace(Lower(test_name), " ", "_")), "failed", text)

-----------------------------------------------------------------------------
(* run_all_tests: the summary, and generate_cache_report *)

Count(rs, status) == Len(SelectSeq(rs, LAMBDA r : r.status = status))

\* a mutant: the threshold is one failure lower
Summary_off_by_one(failed, warnings) ==
    IF failed = 0 THEN "ready"
    ELSE IF failed < 2 /\ warnings > 0 THEN "needs review"
    ELSE "blocking issues"

\* the summary line: "ready for GitHub Actions", "review before GitHub Actions
\* deployment", "fix issues before deploying"
Summary(failed, warnings) ==
    IF failed = 0 THEN "ready"
    ELSE IF failed <= 2 /\ warnings > 0 THEN "needs review"
    ELSE "blocking issues"

FixFailed == "Fix failed tests before deploying to GitHub Actions"
AddressWarnings == "Address warnings to improve reliability"
AllPassed == "All tests passed - ready for GitHub Actions deployment"
CacheEmpty == "Pip cache is empty - first GitHub Actions run will be slower"
CacheActive(size) == "Pip cache active (" \o size \o ") - subsequent runs will be faster"
Line(r) == "   - " \o r.test_name \o ": " \o r.message

Lines(rs) == [n \in 1..Len(rs) |-> Line(rs[n])]

\* a mutant: the warnings are reported before the failures
Recommendations_swapped(rs, pip_cache_size) ==
    LET failed_tests == SelectSeq(rs, LAMBDA r : r.status = "failed")
        warning_tests == SelectSeq(rs, LAMBDA r : r.status = "warning")
    IN  (IF warning_tests # <<>> THEN <<AddressWarnings>> \o Lines(warning_tests) ELSE <<>>)
        \o (IF failed_tests # <<>> THEN <<FixFailed>> \o Lines(failed_tests) ELSE <<>>)
        \o (IF failed_tests = <<>> /\ warning_tests = <<>> THEN <<AllPassed>> ELSE <<>>)
        \o (IF pip_cache_size = "0 B" THEN <<CacheEmpty>>
            ELSE <<CacheActive(pip_cache_size)>>)

\* a mutant: the ready recommendation asks for at least one result
Recommendations_nonempty(rs, pip_cache_size) ==
    LET failed_tests == SelectSeq(rs, LAMBDA r : r.status = "failed")
        warning_tests == SelectSeq(rs, LAMBDA r : r.status = "warning")
    IN  (IF failed_tests # <<>> THEN <<FixFailed>> \o Lines(failed_tests) ELSE <<>>)
        \o (IF warning_tests # <<>> THEN <<AddressWarnings>> \o Lines(warning_tests) ELSE <<>>)
        \o (IF rs # <<>> /\ failed_tests = <<>> /\ warning_tests = <<>>
            THEN <<AllPassed>> ELSE <<>>)
        \o (IF pip_cache_size = "0 B" THEN <<CacheEmpty>>
            ELSE <<CacheActive(pip_cache_size)>>)

Recommendations(rs, pip_cache_size) ==
    LET failed_tests == SelectSeq(rs, LAMBDA r : r.status = "failed")
        warning_tests == SelectSeq(rs, LAMBDA r : r.status = "warning")
    IN  (IF failed_tests # <<>> THEN <<FixFailed>> \o Lines(failed_tests) ELSE <<>>)
        \o (IF warning_tests # <<>> THEN <<AddressWarnings>> \o Lines(warning_tests) ELSE <<>>)
        \o (IF failed_tests = <<>> /\ warning_tests = <<>> THEN <<AllPassed>> ELSE <<>>)
        \o (IF pip_cache_size = "0 B" THEN <<CacheEmpty>>
            ELSE <<CacheActive(pip_cache_size)>>)

\* a mutant: the test_results section lists the failed results only
generate_cache_report_failed_only(rs, exists, sized) ==
    LET pip == [exists |-> exists, size |-> IF exists THEN sized.size ELSE "0 B"]
    IN  [cache_directories |-> [pip |-> pip],
         test_results |-> SelectSeq(rs, LAMBDA r : r.status = "failed"),
         recommendations |-> Recommendations(rs, pip.size)]

\* Of the cache directories only pip's entry is kept: it is the one the
\* recommendations read.  exists is path.exists(), sized the get_dir_size call.
generate_cache_report(rs, exists, sized) ==
    LET pip == [exists |-> exists, size |-> IF exists THEN sized.size ELSE "0 B"]
    IN  [cache_directories |-> [pip |-> pip],
         test_results |-> rs,
         recommendations |-> Recommendations(rs, pip.size)]

-----------------------------------------------------------------------------
(* The actions: main and run_all_tests *)

W == Worlds[world]

\* a mutant: the result is put in front
Record_front(rs, res) == <<res>> \o rs

\* self.results.append(result)
Record(rs, res) == Append(rs, res)

\* run_all_tests is entered
Start ==
    /\ pc = "idle"
    /\ pc' = "running"
    /\ UNCHANGED <<i, tests, results, origin, verdict, report, exitCode, signal,
                   flushed, pipCache, world, clock, run, files, written, launched, call>>

\* result = test_func(); self.results.append(result)
ProbeReturns ==
    /\ pc = "running"
    /\ i <= Len(tests)
    /\ \E o \in Probe(tests[i], W, pipCache) :
          /\ o.kind = "return"
          /\ results' = Record(results, o.res)
          /\ origin' = Append(origin, [probe |-> tests[i], how |-> "returned"])
          /\ pipCache' = o.pip
          /\ launched' = o.commands
    /\ i' = i + 1
    /\ UNCHANGED <<pc, tests, verdict, report, exitCode, signal, flushed, world,
                   clock, run, files, written, call>>

\* except Exception as e: self.results.append(error_result)
ProbeRaises ==
    /\ pc = "running"
    /\ i <= Len(tests)
    /\ \E o \in Probe(tests[i], W, pipCache) :
          /\ o.kind = "raise"
          /\ results' = Record(results, error_result(Declared[tests[i]], o.text))
          /\ origin' = Append(origin, [probe |-> tests[i], how |-> "synthesized"])
          /\ pipCache' = o.pip
          /\ launched' = o.commands
    /\ i' = i + 1
    /\ UNCHANGED <<pc, tests, verdict, report, exitCode, signal, flushed,
                   world, clock, run, files, written, call>>

\* a KeyboardInterrupt leaves the probe, run_all_tests and the try block of main:
\* except KeyboardInterrupt: return 1
ProbeInterrupted ==
    /\ pc = "running"
    /\ i <= Len(tests)
    /\ \E o \in Probe(tests[i], W, pipCache) :
          /\ o.kind = "sigint"
          /\ pipCache' = o.pip
    /\ pc' = "exited"
    /\ exitCode' = {1}
    /\ signal' = "probes"
    /\ UNCHANGED <<i, tests, results, origin, verdict, report, flushed,
                   world, clock, run, files, written, launched, call>>

\* the loop is over: the summary, then return self.generate_cache_report()
Finalize ==
    /\ pc = "running"
    /\ i > Len(tests)
    /\ verdict' = Summary(Count(results, "failed"), Count(results, "warning"))
    /\ \E sized \in DirSizes(W, pipCache) :
          report' = generate_cache_report(results, pipCache, sized)
    /\ pc' = "reported"
    /\ UNCHANGED <<i, tests, results, origin, exitCode, signal, flushed, pipCache,
                   world, clock, run, files, written, launched, call>>

\* a KeyboardInterrupt after the loop, outside get_dir_size
LateInterrupt ==
    /\ \/ pc = "running" /\ i > Len(tests) /\ signal' = "finalizing"
       \/ pc = "reported" /\ signal' = "saving"
    /\ pc' = "exited"
    /\ exitCode' = {1}
    /\ report' = Null
    /\ UNCHANGED <<i, tests, results, origin, verdict, flushed,
                   pipCache, world, clock, run, files, written, launched, call>>

\* int(time.time())
ReportSuffix(now) == now

\* a mutant: warnings count as failures
ExitCode_warnings(rs) ==
    IF Count(rs, "failed") + Count(rs, "warning") = 0 THEN 0 ELSE 1

\* failed_count = len([r for r in tester.results if r.status == "failed"])
ExitCode(rs) == IF Count(rs, "failed") = 0 THEN 0 ELSE 1

\* open(report_file, 'w'); json.dump; the recommendations are printed; return
Save ==
    /\ pc = "reported"
    /\ files' = [s \in DOMAIN files \cup {ReportSuffix(clock)} |->
                    IF s = ReportSuffix(clock) THEN run ELSE files[s]]
    /\ written' = [r \in DOMAIN written \cup {run} |->
                      IF r = run THEN ReportSuffix(clock) ELSE written[r]]
    /\ flushed' = "written"
    /\ exitCode' = {ExitCode(results)}
    /\ pc' = "exited"
    /\ report' = Null
    /\ UNCHANGED <<i, tests, results, origin, verdict, signal,
                   pipCache, world, clock, run, launched, call>>

\* the report is written and a KeyboardInterrupt arrives while the
\* recommendations are printed: except KeyboardInterrupt: return 1
SaveInterrupted ==
    /\ pc = "reported"
    /\ files' = [s \in DOMAIN files \cup {ReportSuffix(clock)} |->
                    IF s = ReportSuffix(clock) THEN run ELSE files[s]]
    /\ written' = [r \in DOMAIN written \cup {run} |->
                      IF r = run THEN ReportSuffix(clock) ELSE written[r]]
    /\ flushed' = "written"
    /\ signal' = "printing"
    /\ exitCode' = {1}
    /\ pc' = "exited"
    /\ report' = Null
    /\ UNCHANGED <<i, tests, results, origin, verdict, pipCache, world, clock, run,
                   launched, call>>

\* open or json.dump raises: except Exception: return 1
SaveFails ==
    /\ pc = "reported"
    /\ flushed' = "attempted"
    /\ exitCode' = {1}
    /\ pc' = "exited"
    /\ report' = Null
    /\ UNCHANGED <<i, tests, results, origin, verdict, signal,
                   pipCache, world, clock, run, files, written, launched, call>>

AllTests == [k \in 1..Len(Declared) |-> k]

Fresh ==
    /\ pc = "idle"
    /\ i = 1
    /\ results = <<>>
    /\ origin = <<>>
    /\ verdict = "none"
    /\ report = Null
    /\ exitCode = {}
    /\ signal = "none"
    /\ flushed = "no"
    /\ launched = 0
    /\ call = Null

Init ==
    /\ Fresh
    /\ tests = AllTests
    /\ pipCache \in BOOLEAN
    /\ world = "any"
    /\ clock = 0
    /\ run = 1
    /\ files = <<>>
    /\ written = <<>>

Next ==
    \/ Start
    \/ ProbeReturns
    \/ ProbeRaises
    \/ ProbeInterrupted
    \/ Finalize
    \/ LateInterrupt
    \/ Save
    \/ SaveInterrupted
    \/ SaveFails

Spec == Init /\ [][Next]_vars

-----------------------------------------------------------------------------
(* Repeated invocations of main in the same project root *)

\* a second of wall-clock time passes
Tick ==
    /\ clock < MaxClock
    /\ clock' = clock + 1
    /\ UNCHANGED <<pc, i, tests, results, origin, verdict, report, exitCode, signal,
                   flushed, pipCache, world, run, files, written, launched, call>>

\* main is invoked again: a new process, a new LocalCacheTester, the same
\* filesystem
Invoke ==
    /\ pc = "exited"
    /\ run < MaxRuns
    /\ run' = run + 1
    /\ pc' = "idle"
    /\ i' = 1
    /\ results' = <<>>
    /\ origin' = <<>>
    /\ verdict' = "none"
    /\ report' = Null
    /\ exitCode' = {}
    /\ signal' = "none"
    /\ flushed' = "no"
    /\ launched' = 0
    /\ call' = Null
    /\ world' \in {"calm", "harsh"}
    /\ UNCHANGED <<tests, pipCache, clock, files, written>>

InitRuns ==
    /\ Fresh
    /\ tests = AllTests
    /\ pipCache \in BOOLEAN
    /\ world \in {"calm", "harsh"}
    /\ clock = 0
    /\ run = 1
    /\ files = <<>>
    /\ written = <<>>

NextRuns == Next \/ Tick \/ Invoke

SpecRuns == InitRuns /\ [][NextRuns]_vars

-----------------------------------------------------------------------------
(* run_all_tests over a shorter declared sequence *)

\* longest declared sequence the harness runs
MaxProbes == 2

\* The tests list is a literal of run_all_tests.  The harness replaces it by
\* one of its prefixes, the empty one included, and runs main unchanged.
InitHarness ==
    /\ Fresh
    /\ \E n \in 0..MaxProbes : tests = SubSeq(AllTests, 1, n)
    /\ pipCache \in BOOLEAN
    /\ world = "any"
    /\ clock = 0
    /\ run = 1
    /\ files = <<>>
    /\ written = <<>>

SpecHarness == InitHarness /\ [][Next]_vars

-----------------------------------------------------------------------------
(* Direct calls of the two utilities *)

Stdouts == {<<>>, <<"out">>}
Stderrs == {"", StderrText}

CallRunCommand ==
    /\ \E timeout \in Timeouts, child \in Children(Stdouts, Stderrs) :
          call' = [fn |-> "run_command",
                   args |-> [timeout |-> timeout, child |-> child],
                   ret |-> run_command(timeout, child)]
    /\ UNCHANGED <<pc, i, tests, results, origin, verdict, report, exitCode, signal,
                   flushed, pipCache, world, clock, run, files, written, launched>>

CallGetDirSize ==
    /\ \E exists \in Stats, du \in DuChildren, walk \in Walks :
          call' = [fn |-> "get_dir_size",
                   args |-> [exists |-> exists, du |-> du, walk |-> walk],
                   ret |-> get_dir_size(exists, du, walk)]
    /\ UNCHANGED <<pc, i, tests, results, origin, verdict, report, exitCode, signal,
                   flushed, pipCache, world, clock, run, files, written, launched>>

NextUtil == CallRunCommand \/ CallGetDirSize

SpecUtil == Init /\ [][NextUtil]_vars

-----------------------------------------------------------------------------
(* A LocalCacheTester whose methods are called again: run_all_tests and      *)
(* generate_cache_report are public methods of an object that stays alive    *)

\* most calls of run_all_tests on one instance
MaxCalls == 2

\* run_all_tests is called again on the same instance.  Neither __init__ nor
\* run_all_tests keeps a state of the run, and self.results is emptied nowhere:
\* the loop starts over its tests list.
Rerun ==
    /\ pc = "reported"
    /\ Len(results) < MaxCalls * Len(tests)
    /\ pc' = "running"
    /\ i' = 1
    /\ report' = Null
    /\ call' = Null
    /\ UNCHANGED <<tests, results, origin, verdict, exitCode, signal, flushed,
                   pipCache, world, clock, run, files, written, launched>>

\* generate_cache_report is called again after run_all_tests has returned:
\* path.exists() answers as before, du and the walk end as they may.  The call
\* is kept with the one before it.
RequestReport ==
    /\ pc = "reported"
    /\ \E du \in DuChildren, walk \in Walks :
          LET sized == get_dir_size(IF pipCache THEN "present" ELSE "absent", du, walk)
              built == generate_cache_report(results, pipCache, sized)
          IN  /\ report' = built
              /\ call' = [fn |-> "generate_cache_report",
                          args |-> [exists |-> pipCache, du |-> du, walk |-> walk],
                          ret |-> built,
                          before |-> IF call = Null THEN Null
                                     ELSE [args |-> call.args, ret |-> call.ret]]
    /\ UNCHANGED <<pc, i, tests, results, origin, verdict, exitCode, signal, flushed,
                   pipCache, world, clock, run, files, written, launched>>

InitInstance ==
    /\ Fresh
    /\ tests = AllTests
    /\ pipCache \in BOOLEAN
    /\ world \in {"calm", "broken"}
    /\ clock = 0
    /\ run = 1
    /\ files = <<>>
    /\ written = <<>>

\* No defect strikes inside a probe and no interrupt arrives in these
\* environments: every probe returns.
NextInstance ==
    \/ Start
    \/ ProbeReturns
    \/ Finalize
    \/ Rerun
    \/ RequestReport

SpecInstance == InitInstance /\ [][NextInstance]_vars

-----------------------------------------------------------------------------
(* The claims *)

Failed == Count(results, "failed")
Warnings == Count(results, "warning")
Synthesized(n) == origin[n].how = "synthesized"

\* C1: a probe whose call raises leaves exactly one synthetic result: status
\* failed, the name the probe itself reports, the message of the exception;
\* the loop goes on, and after the run there is one result per declared probe.
C1_SyntheticResult ==
    /\ Len(results) = Len(origin)
    /\ \A n \in 1..Len(results) :
          Synthesized(n) =>
              /\ results[n].status = "failed"
              /\ results[n].test_name = Reported[origin[n].probe]
              /\ results[n].message = DefectText
    /\ pc = "reported" => Len(results) = Len(tests)

\* C2: probes run one after the other in the declared order whatever came
\* before: the n-th result is the n-th declared probe's, the next probe to run
\* is the one after the last recorded result, and results are only appended.
C2_InOrder ==
    /\ Len(results) = Len(origin)
    /\ Len(results) = i - 1
    /\ i <= Len(tests) + 1
    /\ \A n \in 1..Len(results) :
          /\ origin[n].probe = tests[n]
          /\ origin[n].how = "returned" => results[n].test_name = Reported[tests[n]]

C2_AppendOnly ==
    \/ results' = results
    \/ /\ Len(results') = Len(results) + 1
       /\ SubSeq(results', 1, Len(results)) = results
       /\ origin'[Len(results')].probe = tests[i]
       /\ i' = i + 1

C2_Sequential == []C2_InOrder /\ [][C2_AppendOnly]_vars

\* a run in which a probe failed and a later one still ran and passed
C2_Witness ==
    /\ pc = "reported"
    /\ Len(results) = Len(Declared)
    /\ results[1].status = "failed"
    /\ results[Len(results)].status = "passed"

\* C3: the verdict depends on the failed count F and the warning count W
\* alone: ready when F = 0, needs review when F is 1 or 2 and W >= 1,
\* blocking issues in every other case.
C3_Verdict ==
    verdict # "none" =>
        /\ Failed = 0 => verdict = "ready"
        /\ (Failed \in {1, 2} /\ Warnings >= 1) => verdict = "needs review"
        /\ (Failed >= 3 \/ (Failed >= 1 /\ Warnings = 0)) => verdict = "blocking issues"

C3_Witness ==
    /\ pc = "reported"
    /\ Failed = 2
    /\ Warnings >= 1
    /\ verdict = "needs review"

\* C4: main returns 0 exactly when the run completed (the report was written
\* and no interrupt reached main) with no failed result, and 1 in every other
\* case; before it returns there is no exit code.
C4_ExitCode ==
    /\ pc # "exited" => exitCode = {}
    /\ pc = "exited" =>
          /\ exitCode \in {{0}, {1}}
          /\ exitCode = {0} <=> (flushed = "written" /\ signal = "none" /\ Failed = 0)

\* a completed run with a warning and a skipped result that returns 0
C4_Witness ==
    /\ pc = "exited"
    /\ exitCode = {0}
    /\ Warnings >= 1
    /\ Count(results, "skipped") >= 1

\* C5: a run interrupted while the probes execute stops, still attempts to
\* write the partial report, and returns a non-zero code.
C5_InterruptFlushes ==
    (pc = "exited" /\ signal = "probes") =>
        /\ exitCode = {1}
        /\ flushed # "no"

\* C6: the recommendations are, in this order: the failed header and one line
\* per failed result, in result order; the warning header and one line per
\* warning result, in result order; the ready recommendation iff there is
\* neither; then one pip-cache note, the empty note iff the size reads "0 B".
C6_Recommendations ==
    pc = "reported" =>
        LET recs == report.recommendations
            size == report.cache_directories.pip.size
            fails == SelectSeq(results, LAMBDA r : r.status = "failed")
            warns == SelectSeq(results, LAMBDA r : r.status = "warning")
            a == IF Len(fails) > 0 THEN Len(fails) + 1 ELSE 0
            b == IF Len(warns) > 0 THEN Len(warns) + 1 ELSE 0
            c == IF Len(fails) = 0 /\ Len(warns) = 0 THEN 1 ELSE 0
        IN  /\ Len(recs) = a + b + c + 1
            /\ a > 0 =>
                  /\ recs[1] = FixFailed
                  /\ \A n \in 1..Len(fails) :
                        recs[1 + n] = "   - " \o fails[n].test_name \o ": " \o fails[n].message
            /\ b > 0 =>
                  /\ recs[a + 1] = AddressWarnings
                  /\ \A n \in 1..Len(warns) :
                        recs[a + 1 + n] = "   - " \o warns[n].test_name \o ": " \o warns[n].message
            /\ c = 1 => recs[1] = AllPassed
            /\ c = 0 => \A n \in 1..Len(recs) : recs[n] # AllPassed
            /\ recs[Len(recs)] =
                  (IF size = "0 B" THEN CacheEmpty
                   ELSE "Pip cache active (" \o size \o ") - subsequent runs will be faster")
            /\ \A n \in 1..(Len(recs) - 1) :
                  recs[n] # CacheEmpty /\ recs[n] # CacheActive(size)

\* a report with failed, warning, skipped and passed results
C6_Witness ==
    /\ pc = "reported"
    /\ Failed >= 1
    /\ Warnings >= 1
    /\ Count(results, "skipped") >= 1
    /\ Count(results, "passed") >= 1
    /\ Len(report.recommendations) = Failed + Warnings + 3

\* C7: on an empty declared sequence the run ends with the verdict ready, no
\* result, and one ready recommendation (followed by the pip-cache note).
C7_EmptyRun ==
    (pc = "reported" /\ tests = <<>>) =>
        /\ verdict = "ready"
        /\ results = <<>>
        /\ report.test_results = <<>>
        /\ Len(report.recommendations) = 2
        /\ report.recommendations[1] = AllPassed
        /\ report.recommendations[2] # AllPassed

C7_Witness ==
    /\ pc = "reported"
    /\ tests = <<>>
    /\ report.recommendations[1] = AllPassed

\* C8: the report files of two completed runs have different names, and no
\* run overwrites the report another run wrote.
C8_NoCollision ==
    /\ \A r1, r2 \in DOMAIN written : r1 # r2 => written[r1] # written[r2]
    /\ \A r \in DOMAIN written : files[written[r]] = r

RunCommandCalled == call # Null /\ call.fn = "run_command"
GetDirSizeCalled == call # Null /\ call.fn = "get_dir_size"
TimedOut(timeout) == "Command timed out after " \o ToString(timeout) \o "s"

\* C9 as stated: run_command never raises; a timeout gives -1, an empty stdout
\* and the timeout text, a failed launch gives -1 and the OS error text, every
\* other case gives the child's exit code, stdout and stderr; one spawn.
C9_NeverRaises ==
    RunCommandCalled =>
        LET child == call.args.child
            ret == call.ret
        IN  /\ ret.raised = "none"
            /\ ret.spawned = 1
            /\ child.kind = "timeout" =>
                  ret.rc = -1 /\ ret.out = <<>> /\ ret.err = TimedOut(call.args.timeout)
            /\ child.kind = "launch" =>
                  ret.rc = -1 /\ ret.out = <<>> /\ ret.err = child.err
            /\ child.kind \notin {"timeout", "launch"} =>
                  ret.rc = child.rc /\ ret.out = child.out /\ ret.err = child.err

\* C9, amended: run_command lets no Exception through.  A timeout gives -1, an
\* empty stdout and the timeout text; every other Exception of subprocess.run
\* (a failed launch, an output that cannot be decoded) gives -1, an empty
\* stdout and the exception text; a child that completes gives its own exit
\* code, stdout and stderr; a KeyboardInterrupt leaves run_command.  The
\* command is spawned once.
C9_NoExceptionEscapes ==
    RunCommandCalled =>
        LET child == call.args.child
            ret == call.ret
        IN  /\ ret.spawned = 1
            /\ ret.raised = "none" <=> child.kind # "sigint"
            /\ child.kind = "sigint" => ret.raised = "KeyboardInterrupt"
            /\ child.kind = "timeout" =>
                  ret.rc = -1 /\ ret.out = <<>> /\ ret.err = TimedOut(call.args.timeout)
            /\ child.kind \in {"launch", "decode"} =>
                  ret.rc = -1 /\ ret.out = <<>> /\ ret.err = child.err
            /\ child.kind = "exit" =>
                  ret.rc = child.rc /\ ret.out = child.out /\ ret.err = child.err

\* a timeout of 120 s reported as such
C9_Witness ==
    /\ RunCommandCalled
    /\ call.args.child.kind = "timeout"
    /\ call.args.timeout = 120
    /\ call.ret.rc = -1
    /\ call.ret.err = "Command timed out after 120s"

DuUnusable(du) == du.kind \in {"timeout", "launch"} \/ (du.kind = "exit" /\ du.rc # 0)

\* C10 as stated: a missing path gives "0 B" with no command and no walk; an
\* existing path is sized by du, the walk running only when du exits non-zero
\* or cannot be run; get_dir_size never raises, a failed walk gives "unknown".
C10_NeverRaises ==
    GetDirSizeCalled =>
        LET args == call.args
            ret == call.ret
        IN  /\ ret.raised = "none"
            /\ args.exists = "absent" =>
                  ret.size = "0 B" /\ ret.commands = 0 /\ ~ret.walked
            /\ args.exists = "present" =>
                  /\ ret.commands = 1
                  /\ ret.walked => DuUnusable(args.du)
                  /\ (ret.walked /\ args.walk.kind # "ok") => ret.size = "unknown"

\* C10, amended: a missing path gives "0 B" with no command and no walk.  An
\* existing path is sized by du, launched once; the walk runs exactly when
\* run_command does not report exit code 0 with an output: du exits non-zero,
\* times out, cannot be launched, prints nothing or what cannot be decoded, or
\* a KeyboardInterrupt arrives during the call, which the bare except catches.
\* A walk that fails gives "unknown".  No failure of du or of the walk leaves
\* get_dir_size; an error raised by the existence test does.
C10_DirSize ==
    GetDirSizeCalled =>
        LET args == call.args
            ret == call.ret
        IN  /\ ret.raised = "none" <=> args.exists # "denied"
            /\ args.exists = "denied" => (ret.commands = 0 /\ ~ret.walked)
            /\ args.exists = "absent" =>
                  ret.size = "0 B" /\ ret.commands = 0 /\ ~ret.walked
            /\ args.exists = "present" =>
                  /\ ret.commands = 1
                  /\ ret.walked <=>
                        ~(args.du.kind = "exit" /\ args.du.rc = 0 /\ args.du.out # <<>>)
                  /\ ~ret.walked => ret.size = args.du.out[1]
                  /\ (ret.walked /\ args.walk.kind # "ok") => ret.size = "unknown"
                  /\ (ret.walked /\ args.walk.kind = "ok") =>
                        ret.size \notin {"unknown", "0 B"}

\* a missing path sized without a command
C10_WitnessAbsent ==
    /\ GetDirSizeCalled
    /\ call.args.exists = "absent"
    /\ call.ret.size = "0 B"
    /\ call.ret.commands = 0

ReportRequested == call # Null /\ call.fn = "generate_cache_report"
ReportRequestedTwice == ReportRequested /\ call.before # Null

\* Nothing the two calls saw tells two states of the filesystem apart: the
\* path exists in both or in neither; where du ran to its end in both it printed
\* the same, and where the walk ran to its end in both it found the same.  What
\* is left free is what does not depend on the files: du timing out or not
\* being launched, and an interrupt.
FilesRead == {"exit", "decode"}
WalkRead == {"ok", "error"}
SameFiles(a, b) ==
    /\ a.exists = b.exists
    /\ (a.du.kind \in FilesRead /\ b.du.kind \in FilesRead) => a.du = b.du
    /\ (a.walk.kind \in WalkRead /\ b.walk.kind \in WalkRead) => a.walk = b.walk

\* all of a sequence but its last element
Front(q) == SubSeq(q, 1, Len(q) - 1)

C12_DoneTerminal ==
    [][Len(results) >= Len(tests) => results' = results]_vars

\* C13: within one run of run_all_tests no two entries of the result sequence
\* carry the same name, whether a probe returned them or the orchestrator
\* synthesized them after the probe raised.
C13_UniqueNames ==
    Cardinality({results[n].test_name : n \in 1..Len(results)}) = Len(results)

\* a finished run with returned results next to synthetic ones
C13_Witness ==
    /\ Len(results) = Len(Declared)
    /\ ~Synthesized(1)
    /\ Synthesized(2)
    /\ ~Synthesized(3)
    /\ Synthesized(7)
    /\ Synthesized(8)

\* the environment of the run with neither requirements file in place
NoManifest == [W EXCEPT !.present = {FALSE}]

\* the results the tallies count
Counted == SelectSeq(results, LAMBDA r : r.status # "skipped")

\* C14: with neither requirements.txt nor requirements-minimal.txt in place,
\* test_requirements_installation returns 'skipped' with a message naming the
\* missing file and launches no install command; a skipped result is counted
\* in neither tally, so the verdict, the exit code and the recommendations are
\* those of the run without it.
C14_Skipped ==
    LET failed == Count(Counted, "failed")
        warnings == Count(Counted, "warning")
    IN  /\ (pc = "running" /\ i = 3) =>
              \A o \in test_requirements_installation(NoManifest, pipCache) :
                  o.kind = "return" =>
                      /\ o.res = CacheTestResult("requirements_install", "skipped",
                                                 "No requirements.txt found")
                      /\ o.commands = 0
        /\ (pc = "running" /\ i = 4 /\ ~Synthesized(3)
                /\ results[3].status = "skipped") => launched = 0
        /\ Failed = failed
        /\ Warnings = warnings
        /\ verdict # "none" => verdict = Summary(failed, warnings)
        /\ report # Null =>
              report.recommendations =
                  Recommendations(Counted, report.cache_directories.pip.size)
        /\ (pc = "exited" /\ flushed = "written" /\ signal = "none") =>
              exitCode = {IF failed = 0 THEN 0 ELSE 1}

\* a run that skipped the requirements probe, had no failure and ended with 0
C14_Witness ==
    /\ pc = "exited"
    /\ flushed = "written"
    /\ Len(results) = Len(Declared)
    /\ ~Synthesized(3)
    /\ results[3].status = "skipped"
    /\ results[3].message = "No requirements.txt found"
    /\ Failed = 0
    /\ exitCode = {0}

Recommends(line) ==
    \E n \in 1..Len(report.recommendations) : report.recommendations[n] = line

\* C15: the report carries the 'pip cache is empty' note only when the pip
\* cache directory does not exist at report time: "0 B" is the size of a
\* missing path alone, neither du nor the walk gives it.  A run whose
\* python_environment result is 'passed' has the directory, so its report
\* carries the 'cache active' note and not the 'empty' one, whatever the cache
\* holds.
C15_EmptyNote ==
    report # Null =>
        LET pip == report.cache_directories.pip
        IN  /\ pip.exists = pipCache
            /\ pip.size = "0 B" <=> ~pip.exists
            /\ Recommends(CacheEmpty) <=> ~pip.exists
            /\ Recommends(CacheActive(pip.size)) <=> pip.exists
            /\ (~Synthesized(1) /\ results[1].status = "passed") =>
                  /\ pip.exists
                  /\ Recommends(CacheActive(pip.size))
                  /\ ~Recommends(CacheEmpty)

\* python_environment passed on a machine without the directory, the walk
\* finds no file in it: the report says the cache is active, with 0.0 B
C15_Witness ==
    /\ pc = "reported"
    /\ ~Synthesized(1)
    /\ results[1].status = "passed"
    /\ report.cache_directories.pip.size = "0.0 B"
    /\ Recommends(CacheActive("0.0 B"))

====
